---- MODULE Spec2Model ----
(***************************************************************************)
(* State-machine model of src/main.py: the scraper that configures the     *)
(* traffic-accident table (select all fields, period via the calendar      *)
(* widget, page size), then reads the table page by page.                  *)
(*                                                                         *)
(* Text is modelled as a sequence of symbols (a symbol stands for a run of *)
(* characters without white space, or for one white-space character), so   *)
(* that _txt, the substring test of parse_table and the f-strings are      *)
(* computed, not assumed.  Cyrillic literals of the source are written in  *)
(* Latin transliteration.                                                  *)
(***************************************************************************)
EXTENDS Integers, Sequences, FiniteSets, TLC

VARIABLES
    pc,            \* position of the running code
    err,           \* the exception that ended the run ("" when none)
    log,           \* the calls main made and the clicks issued so far, in order
    calYear,       \* remote calendar widget: displayed year
    calMonth,      \* remote calendar widget: displayed month, 1..12
    calLocale,     \* remote calendar widget: language of the month label
    calYearStyle,  \* remote calendar widget: how the year label is rendered
    calQueue,      \* remote calendar widget: clicks received and not rendered yet
    grace,         \* _calendar_get_month_year: milliseconds waited for the second placeholder
    navTarget,     \* _navigate_calendar_to: target
    navStart,      \* history: the month displayed when _navigate_calendar_to was called
    navIter,       \* _navigate_calendar_to: iterations of the for loop begun
    picked,        \* the dates whose day cell was clicked, in order
    table,         \* remote page: the rendered table, [thead, tbody]
    final_headers, \* parse_table: the header list of the last call
    rows,          \* the records of the last parse_table call
    maxPages,      \* setting MAX_PAGES
    pg,            \* main: the loop variable pg
    all_rows,      \* main: the records collected so far (the ResultSet)
    pageRows,      \* history: the number of data rows rendered at each parse_table call
    btnSeen,       \* next_page: the next-page control as the last call found it
    prevSig,       \* next_page: prev, the fingerprint captured before the click
    curSig,        \* wait_table_changed: cur, the fingerprint last polled
    elapsed,       \* wait_table_changed: milliseconds since the wait began
    pending,       \* remote page: a click on next-page has not been rendered yet
    sigChanged,    \* history: the first-row fingerprint differed from prev since the click
    nextRet,       \* the value the last next_page call returned ("none" before)
    output         \* what was handed to the writer: <<>> before, then <<all_rows>>

vars == <<pc, err, log, calYear, calMonth, calLocale, calYearStyle, calQueue, grace,
          navTarget, navStart, navIter, picked, table, final_headers, rows,
          maxPages, pg, all_rows, pageRows, btnSeen, prevSig, curSig, elapsed, pending,
          sigChanged, nextRet, output>>

navVars == <<calYear, calMonth, calLocale, calYearStyle, calQueue, grace,
             navTarget, navStart, navIter, picked>>

tableVars == <<table, final_headers, rows>>

pageVars == <<btnSeen, prevSig, curSig, elapsed, pending, sigChanged, nextRet>>

mainVars == <<maxPages, pg, all_rows, pageRows, output>>

(***************************************************************************)
(* Text                                                                    *)
(***************************************************************************)
SP == " "
NBSP == "\\xa0"
TAB == "\\t"
EmptyText == <<>>

IsSpace(c) == c \in {SP, NBSP, TAB}

\* str.replace("\xa0", " ")
ReplaceNbsp(s) == [i \in 1..Len(s) |-> IF s[i] = NBSP THEN SP ELSE s[i]]

\* str.strip()
RECURSIVE Strip(_)
Strip(s) ==
    IF s = <<>> THEN <<>>
    ELSE IF IsSpace(Head(s)) THEN Strip(Tail(s))
    ELSE IF IsSpace(s[Len(s)]) THEN Strip(SubSeq(s, 1, Len(s) - 1))
    ELSE s

\* _txt(s) = (s or "").replace("\xa0", " ").strip()
_txt(s) == Strip(ReplaceNbsp(s))

(***************************************************************************)
(* Calendar widget (remote) and its reader                                 *)
(***************************************************************************)
MONTHS_RU == <<"Yanvar", "Fevral", "Mart", "Aprel", "Mai", "Iyun",
               "Iyul", "Avgust", "Sentyabr", "Oktyabr", "Noyabr", "Dekabr">>

\* The labels of a widget that is not rendered in Russian.
MONTHS_EN == <<"January", "February", "March", "April", "May", "June",
               "July", "August", "September", "October", "November", "December">>

_month_name_ru(m) == MONTHS_RU[m]

Digits == <<"0", "1", "2", "3", "4", "5", "6", "7", "8", "9">>

IsDigit(c) == \E d \in 1..10 : Digits[d] = c

DigitValue(c) == (CHOOSE d \in 1..10 : Digits[d] = c) - 1

\* The decimal digits of n >= 0, one symbol each.
RECURSIVE Decimal(_)
Decimal(n) == IF n < 10 THEN <<Digits[n + 1]>>
              ELSE Append(Decimal(n \div 10), Digits[(n % 10) + 1])

\* re.sub(r"\D+", "", s)
RECURSIVE OnlyDigits(_)
OnlyDigits(s) ==
    IF s = <<>> THEN <<>>
    ELSE IF IsDigit(Head(s)) THEN <<Head(s)>> \o OnlyDigits(Tail(s))
    ELSE OnlyDigits(Tail(s))

\* int(s) of a non-empty digit string
RECURSIVE ParseInt(_)
ParseInt(s) == IF s = <<>> THEN 0
               ELSE 10 * ParseInt(SubSeq(s, 1, Len(s) - 1)) + DigitValue(s[Len(s)])

YearStyles == {"plain", "suffixed", "missing", "no_digits"}

\* What the widget renders in its placeholders: the month label and, unless
\* the second placeholder never appears, the year label.
CalMonthLabel == <<NBSP, (IF calLocale = "ru" THEN MONTHS_RU ELSE MONTHS_EN)[calMonth], SP>>

CalPlaceholderCount == IF calYearStyle = "missing" THEN 1 ELSE 2

CalYearLabel == IF calYearStyle = "suffixed" THEN Decimal(calYear) \o <<SP, "g.">>
                ELSE IF calYearStyle = "no_digits" THEN <<NBSP, "god">>
                ELSE Decimal(calYear)

_calendar_get_month_year_mutant ==
    [ok |-> TRUE, month |-> _txt(CalMonthLabel),
     year |-> IF CalPlaceholderCount >= 2 THEN ParseInt(OnlyDigits(_txt(CalYearLabel))) ELSE 0]

\* _calendar_get_month_year: [ok, month, year]; ok = FALSE is the RuntimeError.
_calendar_get_month_year ==
    LET month == _txt(CalMonthLabel)
        year_txt == IF CalPlaceholderCount >= 2 THEN _txt(CalYearLabel) ELSE EmptyText
        year_digits == OnlyDigits(year_txt)
    IN  IF year_digits = <<>>
        THEN [ok |-> FALSE, month |-> month, year |-> 0]
        ELSE [ok |-> TRUE, month |-> month, year |-> ParseInt(year_digits)]

MonthNumMutant(cur_month) ==
    IF \E k \in 1..12 : cur_month \in {<<MONTHS_RU[k]>>, <<MONTHS_EN[k]>>}
    THEN CHOOSE k \in 1..12 : cur_month \in {<<MONTHS_RU[k]>>, <<MONTHS_EN[k]>>}
    ELSE 0

\* The lookup loop of _navigate_calendar_to: the first key of MONTHS_RU whose
\* value is the label, 0 for None.
MonthNum(cur_month) ==
    IF \E k \in 1..12 : <<MONTHS_RU[k]>> = cur_month
    THEN CHOOSE k \in 1..12 : /\ <<MONTHS_RU[k]>> = cur_month
                              /\ \A j \in 1..(k - 1) : <<MONTHS_RU[j]>> # cur_month
    ELSE 0

\* Python's comparison of the tuples (year, month).
TupleLess(a, b) == \/ a[1] < b[1]
                   \/ a[1] = b[1] /\ a[2] < b[2]

\* The widget's next/prev controls move the displayed month by one.
CalAfterNext == IF calMonth = 12 THEN <<calYear + 1, 1>> ELSE <<calYear, calMonth + 1>>

CalAfterPrev == IF calMonth = 1 THEN <<calYear - 1, 12>> ELSE <<calYear, calMonth - 1>>

\* The number of iterations of the for loop of _navigate_calendar_to.
StepCap == 60

LoopExhaustedMutant(n) == FALSE

\* for _ in range(0, 60) has run out: the raise after the loop
LoopExhausted(n) == n = StepCap

NavAtTargetMutant(cur, target) == <<cur[2], cur[1]>> = target

\* The test that ends the loop: (cur_year, cur_month_num) == (target_year, target.month)
NavAtTarget(cur, target) == cur = target

NavDirectionMutant(cur, target) == IF TupleLess(target, cur) THEN "next" ELSE "prev"

\* Which control an iteration clicks when the state read is not the target.
NavDirection(cur, target) == IF TupleLess(cur, target) THEN "next" ELSE "prev"

\* The while loop of _calendar_get_month_year waits, 100 ms at a time and for
\* 5 s at most, for the second placeholder.
GRACE_MS == 5000

GraceIntervalMs == 100

\* The while loop is over: both placeholders are there, or the deadline passed.
GraceOver == CalPlaceholderCount >= 2 \/ grace >= GRACE_MS

\* page.wait_for_timeout(100) in the while loop of _calendar_get_month_year
GraceWait ==
    /\ pc \in {"nav", "nav_start", "nav_end"}
    /\ navIter < StepCap
    /\ ~GraceOver
    /\ grace' = grace + GraceIntervalMs
    /\ UNCHANGED <<pc, err, log, calYear, calMonth, calLocale, calYearStyle, calQueue>>
    /\ UNCHANGED <<navTarget, navStart, navIter, picked, tableVars, pageVars, mainVars>>

\* One iteration of the for loop of _navigate_calendar_to, called at `at`,
\* returning to `ret`.  The iteration that uses the loop up raises.
NavStep(at, ret) ==
    /\ pc = at
    /\ navIter < StepCap
    /\ GraceOver
    /\ UNCHANGED <<calLocale, calYearStyle, calQueue, grace, navTarget, navStart, picked>>
    /\ UNCHANGED <<tableVars, pageVars, mainVars>>
    /\ LET rd == _calendar_get_month_year
           cur_month_num == MonthNum(rd.month)
           dir == IF cur_month_num = 0 THEN "prev"
                  ELSE NavDirection(<<rd.year, cur_month_num>>, navTarget)
           after == IF dir = "next" THEN CalAfterNext ELSE CalAfterPrev
       IN  IF ~rd.ok
           THEN /\ pc' = "failed"
                /\ err' = "year_unreadable"
                /\ UNCHANGED <<log, calYear, calMonth, navIter>>
           ELSE IF cur_month_num # 0 /\ NavAtTarget(<<rd.year, cur_month_num>>, navTarget)
           THEN /\ pc' = ret
                /\ UNCHANGED <<err, log, calYear, calMonth, navIter>>
           ELSE /\ log' = Append(log, "click:cal_" \o dir)
                /\ calYear' = after[1]
                /\ calMonth' = after[2]
                /\ navIter' = navIter + 1
                /\ IF LoopExhausted(navIter + 1)
                   THEN pc' = "failed" /\ err' = "step_cap"
                   ELSE UNCHANGED <<pc, err>>

(***************************************************************************)
(* parse_table                                                             *)
(***************************************************************************)
\* "Количество пострадавших"
VICTIMS == <<"Kolichestvo", SP, "postradavshikh">>

\* "Ранено", "Погибло"
RANENO == <<"Raneno">>
POGIBLO == <<"Pogiblo">>

SERVICE == <<"_service">>

\* needle in hay, for strings
Contains(needle, hay) ==
    \E i \in 1..(Len(hay) - Len(needle) + 1) :
        SubSeq(hay, i, i + Len(needle) - 1) = needle

\* A dict is the sequence of its (key, value) pairs in insertion order, the keys
\* distinct.  d[k] = v: a key already present keeps its place.
DictSet(d, k, v) ==
    IF \E i \in 1..Len(d) : d[i][1] = k
    THEN [i \in 1..Len(d) |-> IF d[i][1] = k THEN <<k, v>> ELSE d[i]]
    ELSE Append(d, <<k, v>>)

DictKeys(d) == [i \in 1..Len(d) |-> d[i][1]]

DictHas(d, k) == \E i \in 1..Len(d) : d[i][1] = k

DictGet(d, k) == d[CHOOSE i \in 1..Len(d) : d[i][1] = k][2]

\* dict(zip(keys, values))
RECURSIVE DictZipFrom(_, _, _, _)
DictZipFrom(d, keys, values, i) ==
    IF i > Len(keys) \/ i > Len(values) THEN d
    ELSE DictZipFrom(DictSet(d, keys[i], values[i]), keys, values, i + 1)

DictZip(keys, values) == DictZipFrom(<<>>, keys, values, 1)

\* [_txt(x.inner_text()) for x in cells]
TextsOf(cells) == [i \in 1..Len(cells) |-> _txt(cells[i])]

HeadersRow1Mutant(thead) == IF Len(thead) >= 1 THEN TextsOf(thead[1]) ELSE <<>>

\* headers_row1, with headers_row1[0] = "" when there is a first cell
HeadersRow1(thead) ==
    LET row1 == IF Len(thead) >= 1 THEN thead[1] ELSE <<>>
        t == TextsOf(row1)
    IN  [i \in 1..Len(t) |-> IF i = 1 THEN EmptyText ELSE t[i]]

\* sub: the texts of the second header row when it has at least two cells
SubHeaders(thead) ==
    IF Len(thead) > 1 /\ Len(thead[2]) >= 2 THEN TextsOf(thead[2]) ELSE <<>>

ExpandedColumnsMutant == <<POGIBLO, RANENO>>

\* final_headers.extend(["Ранено", "Погибло"])
ExpandedColumns == <<RANENO, POGIBLO>>

\* The while loop that builds final_headers
RECURSIVE FinalHeaders(_, _)
FinalHeaders(headers_row1, sub) ==
    IF headers_row1 = <<>> THEN <<>>
    ELSE LET h == Head(headers_row1)
             rest == FinalHeaders(Tail(headers_row1), sub)
         IN  IF h = EmptyText THEN <<SERVICE>> \o rest
             ELSE IF Contains(VICTIMS, h) /\ sub # <<>> THEN ExpandedColumns \o rest
             ELSE <<h>> \o rest

ExtraNamesMutant(n) == [k \in 1..n |-> <<"extra_">> \o Decimal(k - 1)]

\* [f"extra_{k}" for k in range(1, n + 1)]
ExtraNames(n) == [k \in 1..n |-> <<"extra_">> \o Decimal(k)]

\* The body of the loop over the data rows: the record of one row
RowRecord(headers, tds) ==
    LET values == TextsOf(tds)
    IN  IF Len(values) < Len(headers)
        THEN DictZip(headers, values \o [i \in 1..(Len(headers) - Len(values)) |-> EmptyText])
        ELSE IF Len(values) > Len(headers)
        THEN DictZip(headers \o ExtraNames(Len(values) - Len(headers)), values)
        ELSE DictZip(headers, values)

ReconciledHeaders(t) == FinalHeaders(HeadersRow1(t.thead), SubHeaders(t.thead))

\* parse_table(page): one record per data row
parse_table(t) == [r \in 1..Len(t.tbody) |-> RowRecord(ReconciledHeaders(t), t.tbody[r])]

EmptyTable == [thead |-> <<>>, tbody |-> <<>>]

(***************************************************************************)
(* The remote page: tables it can render, the fingerprint of the first row *)
(***************************************************************************)
\* inner_text() of a row: the texts of its cells, tab-separated
RECURSIVE RowInnerText(_)
RowInnerText(tds) ==
    IF tds = <<>> THEN <<>>
    ELSE IF Len(tds) = 1 THEN tds[1]
    ELSE tds[1] \o <<TAB>> \o RowInnerText(Tail(tds))

\* first_row_signature(page)
first_row_signature(t) ==
    IF Len(t.tbody) = 0 THEN EmptyText ELSE _txt(RowInnerText(t.tbody[1]))

PageThead == << << <<>>, <<"Data">>, <<"Kolichestvo", NBSP, "postradavshikh">>, <<"Mesto">> >>,
                << <<"ran.">>, <<"pog.">> >> >>

PageRow(id) == << <<>>, <<NBSP, id>>, <<"1">>, <<"0">>, <<"M", SP>> >>

\* A row that lacks its last cell
ShortRow(id) == << <<>>, <<id>>, <<"2">>, <<"1">> >>

\* The pages the site can render: no row; row a; rows b, c; rows a, c
PageTables == { [thead |-> PageThead, tbody |-> <<>>],
                [thead |-> PageThead, tbody |-> <<PageRow("a")>>],
                [thead |-> PageThead, tbody |-> <<PageRow("b"), ShortRow("c")>>],
                [thead |-> PageThead, tbody |-> <<PageRow("a"), ShortRow("c")>>] }

(***************************************************************************)
(* Settings                                                                *)
(***************************************************************************)
START_DATE == [year |-> 2024, month |-> 11, day |-> 1]
END_DATE == [year |-> 2024, month |-> 11, day |-> 30]

WAIT_TABLE_CHANGE_MS == 30000

\* page.wait_for_timeout(200) in wait_table_changed
PollIntervalMs == 200

\* How long the read of the fingerprint in one poll may take, in milliseconds
ReadMsA == 9800
ReadMsB == 14800

PollDurations == {PollIntervalMs + ReadMsA, PollIntervalMs + ReadMsB}

IsLeap(y) == (y % 4 = 0 /\ y % 100 # 0) \/ y % 400 = 0

FailMutant(e) == pc' = pc /\ err' = e

DaysInMonth(y, m) == IF m = 2 THEN (IF IsLeap(y) THEN 29 ELSE 28)
                     ELSE IF m \in {4, 6, 9, 11} THEN 30 ELSE 31

Fail(e) == pc' = "failed" /\ err' = e

(***************************************************************************)
(* main: configuration                                                     *)
(***************************************************************************)
\* page.goto(URL), page.wait_for_load_state("networkidle")
Goto ==
    /\ pc = "start"
    /\ \E loaded \in BOOLEAN :
          IF loaded
          THEN pc' = "select_fields" /\ err' = err
          ELSE Fail("timeout")
    /\ log' = Append(log, "call:goto")
    /\ UNCHANGED <<navVars, tableVars, pageVars, mainVars>>

\* click_select_all_fields(page): an is_checked() that raises (its timeout
\* included) is caught and answered by the forced click.
click_select_all_fields ==
    /\ pc = "select_fields"
    /\ \E checkbox \in {"hidden", "checked", "unchecked", "query_fails"} :
          LET l1 == log \o <<"call:click_select_all_fields", "click:fields_btn">>
          IN  IF checkbox = "hidden"
              THEN Fail("timeout") /\ log' = l1
              ELSE /\ pc' = "set_period"
                   /\ err' = err
                   /\ log' = IF checkbox = "checked" THEN l1
                             ELSE IF checkbox = "unchecked" THEN Append(l1, "click:checkbox")
                             ELSE l1 \o <<"timeout:is_checked", "click:checkbox">>
    /\ UNCHANGED <<navVars, tableVars, pageVars, mainVars>>

\* set_period_range_via_calendar up to the first _navigate_calendar_to
OpenPeriod ==
    /\ pc = "set_period"
    /\ \E dialog \in BOOLEAN :
          IF dialog
          THEN pc' = "nav_start" /\ err' = err
          ELSE Fail("timeout")
    /\ log' = log \o <<"call:set_period_range_via_calendar", "click:filters",
                       "click:period_accordion", "click:period_input">>
    /\ navTarget' = <<START_DATE.year, START_DATE.month>>
    /\ navStart' = <<calYear, calMonth>>
    /\ navIter' = 0
    /\ UNCHANGED <<calYear, calMonth, calLocale, calYearStyle, calQueue, grace, picked>>
    /\ UNCHANGED <<tableVars, pageVars, mainVars>>

\* _pick_day_in_current_month(page, day): the cell of `day` in the displayed
\* month is clicked; no such cell (outside the month) is a timeout.
PickDay(at, ret, day) ==
    /\ pc = at
    /\ IF day <= DaysInMonth(calYear, calMonth)
       THEN /\ pc' = ret
            /\ err' = err
            /\ log' = Append(log, "click:day")
            /\ picked' = Append(picked, [year |-> calYear, month |-> calMonth, day |-> day])
       ELSE /\ Fail("timeout")
            /\ UNCHANGED <<log, picked>>
    /\ UNCHANGED <<calYear, calMonth, calLocale, calYearStyle, calQueue, grace, navStart>>
    /\ UNCHANGED <<tableVars, pageVars, mainVars>>

AfterStartPickedMutant == "submit"

\* set_period_range_via_calendar: the start day picked, _navigate_calendar_to(page, end)
AfterStartPicked == "nav_end"

PickStart ==
    /\ PickDay("pick_start", AfterStartPicked, START_DATE.day)
    /\ navTarget' = <<END_DATE.year, END_DATE.month>>
    /\ navIter' = 0

PickEnd ==
    /\ PickDay("pick_end", "submit", END_DATE.day)
    /\ UNCHANGED <<navTarget, navIter>>

MainAfterPeriodMutant == "extract"

\* main: set_page_size(page, PAGE_SIZE) follows set_period_range_via_calendar
MainAfterPeriod == "set_page_size"

\* The end of set_period_range_via_calendar: the "Показать" button, by role or,
\* when that times out, by text; then networkidle.
SubmitPeriod ==
    /\ pc = "submit"
    /\ \E by_role \in BOOLEAN :
          log' = log \o (IF by_role THEN <<"click:show">>
                          ELSE <<"timeout:show", "click:show_by_text">>)
    /\ pc' = MainAfterPeriod
    /\ UNCHANGED <<err, navVars, tableVars, pageVars, mainVars>>

\* set_page_size(page, PAGE_SIZE), then the for loop of main begins
set_page_size ==
    /\ pc = "set_page_size"
    /\ \E item \in BOOLEAN :
          LET l1 == log \o <<"call:set_page_size", "click:limit_btn">>
          IN  IF item
              THEN /\ log' = Append(l1, "click:limit_item")
                   /\ pc' = IF 1 <= maxPages THEN "extract" ELSE "save"
                   /\ err' = err
                   /\ pg' = 1
                   /\ table' \in PageTables
              ELSE /\ log' = l1
                   /\ Fail("timeout")
                   /\ UNCHANGED <<pg, table>>
    /\ UNCHANGED <<navVars, final_headers, rows, pageVars, maxPages, all_rows, pageRows, output>>

(***************************************************************************)
(* main: the page loop, next_page, wait_table_changed                      *)
(***************************************************************************)
PAGE_KEY == <<"_page">>

TaggedMutant(recs, n) == [i \in 1..Len(recs) |-> DictSet(recs[i], PAGE_KEY, Decimal(n - 1))]

\* r["_page"] = str(pg) for every record
Tagged(recs, n) == [i \in 1..Len(recs) |-> DictSet(recs[i], PAGE_KEY, Decimal(n))]

ExtendedMutant(acc, recs) == recs \o acc

\* all_rows.extend(rows)
Extended(acc, recs) == acc \o recs

LastPageMutant(n) == FALSE

\* if pg == MAX_PAGES: break
LastPage(n) == n = maxPages

\* The body of the for loop up to the call of next_page
Extract ==
    /\ pc = "extract"
    /\ final_headers' = ReconciledHeaders(table)
    /\ rows' = Tagged(parse_table(table), pg)
    /\ all_rows' = Extended(all_rows, Tagged(parse_table(table), pg))
    /\ pageRows' = Append(pageRows, Len(table.tbody))
    /\ log' = Append(log, "call:parse_table")
    /\ pc' = IF LastPage(pg) THEN "save" ELSE "next_page"
    /\ UNCHANGED <<err, navVars, table, pageVars, maxPages, pg, output>>

BtnStates == {"absent", "disabled", "enabled", "query_fails", "query_fails_disabled"}

NoButtonMutant(btn) == FALSE

\* if btn.count() == 0: return False
NoButton(btn) == btn = "absent"

ReportedDisabledMutant(btn) == btn \in {"disabled", "query_fails", "query_fails_disabled"}

\* try: if not btn.is_enabled(): return False; except Exception: pass
ReportedDisabled(btn) == btn = "disabled"

\* next_page(page) up to btn.click(): the control is absent or reported
\* disabled (return False), or it is clicked; an is_enabled() that raises is
\* passed over, and a click on a disabled control whose query failed times out.
NextPageBegin ==
    /\ pc = "next_page"
    /\ \E btn \in BtnStates :
          /\ btnSeen' = btn
          /\ IF NoButton(btn) \/ ReportedDisabled(btn)
             THEN /\ log' = Append(log, "call:next_page")
                  /\ nextRet' = "false"
                  /\ pc' = "paginated"
                  /\ UNCHANGED <<err, prevSig, curSig, elapsed, pending, sigChanged>>
             ELSE IF btn = "query_fails_disabled"
             THEN /\ log' = log \o <<"call:next_page", "timeout:is_enabled">>
                  /\ Fail("timeout")
                  /\ prevSig' = first_row_signature(table)
                  /\ UNCHANGED <<curSig, elapsed, pending, sigChanged, nextRet>>
             ELSE /\ log' = log \o <<"call:next_page">>
                              \o (IF btn = "enabled" THEN <<>> ELSE <<"timeout:is_enabled">>)
                              \o <<"click:next_page">>
                  /\ prevSig' = first_row_signature(table)
                  /\ curSig' = EmptyText
                  /\ elapsed' = 0
                  /\ pending' = TRUE
                  /\ sigChanged' = FALSE
                  /\ nextRet' = "none"
                  /\ pc' = "polling"
                  /\ err' = err
    /\ UNCHANGED <<navVars, tableVars, mainVars>>

\* The remote page renders the table the click asked for.
Render ==
    /\ pc = "polling"
    /\ pending
    /\ pending' = FALSE
    /\ table' \in PageTables
    /\ sigChanged' = (sigChanged \/ first_row_signature(table') # prevSig)
    /\ UNCHANGED <<pc, err, log, navVars, final_headers, rows, mainVars>>
    /\ UNCHANGED <<btnSeen, prevSig, curSig, elapsed, nextRet>>

DeadlinePassedMutant(t) == t >= 2 * WAIT_TABLE_CHANGE_MS

\* wait_table_changed: while time.time() < deadline is over
DeadlinePassed(t) == t >= WAIT_TABLE_CHANGE_MS

TableChangedMutant(cur, prev) == cur # EmptyText

TableChangedAnyMutant(cur, prev) == cur # prev

\* if cur and cur != prev_sig
TableChanged(cur, prev) == cur # EmptyText /\ cur # prev

\* One iteration of the loop of wait_table_changed; on a change next_page
\* waits for networkidle and returns True.
Poll ==
    /\ pc = "polling"
    /\ ~DeadlinePassed(elapsed)
    /\ \E dt \in PollDurations : elapsed' = elapsed + dt
    /\ curSig' = first_row_signature(table)
    /\ IF TableChanged(first_row_signature(table), prevSig)
       THEN nextRet' = "true" /\ pc' = "paginated"
       ELSE UNCHANGED <<nextRet, pc>>
    /\ UNCHANGED <<err, log, navVars, tableVars, mainVars>>
    /\ UNCHANGED <<btnSeen, prevSig, pending, sigChanged>>

\* The deadline of wait_table_changed has passed: next_page waits for
\* networkidle, which lets a rendering still under way finish, and returns False.
PollTimeout ==
    /\ pc = "polling"
    /\ DeadlinePassed(elapsed)
    /\ nextRet' = "false"
    /\ pc' = "paginated"
    /\ pending' = FALSE
    /\ table' \in (IF pending THEN PageTables ELSE {table})
    /\ UNCHANGED <<err, log, navVars, final_headers, rows, mainVars>>
    /\ UNCHANGED <<btnSeen, prevSig, curSig, elapsed, sigChanged>>

ContinuesMutant(ret) == TRUE

\* if not next_page(page): ... break
Continues(ret) == ret = "true"

\* main after next_page returned: the next iteration, or the break
AfterNextPage ==
    /\ pc = "paginated"
    /\ IF Continues(nextRet)
       THEN pc' = "extract" /\ pg' = pg + 1
       ELSE pc' = "save" /\ pg' = pg
    /\ UNCHANGED <<err, log, navVars, tableVars, pageVars, maxPages, all_rows, pageRows, output>>

\* browser.close(); the DataFrame of all_rows is written
Save ==
    /\ pc = "save"
    /\ pc' = "done"
    /\ output' = <<all_rows>>
    /\ log' = Append(log, "call:save")
    /\ UNCHANGED <<err, navVars, tableVars, pageVars, maxPages, pg, all_rows, pageRows>>

(***************************************************************************)
(* The navigator on its own: any displayed month, any target               *)
(***************************************************************************)
FirstYear == 2019
NumYears == 6

Years == FirstYear..(FirstYear + NumYears - 1)

LastYear == FirstYear + NumYears - 1

\* Any displayed month of Years.  A widget rendered as the code expects (Russian
\* month label, bare year) is driven to any month of the first and of the last
\* year; a widget rendered otherwise to November of the last year.
NavInit ==
    /\ pc = "nav"
    /\ err = ""
    /\ log = <<>>
    /\ calYear \in Years
    /\ calMonth \in 1..12
    /\ \/ /\ calLocale = "ru"
          /\ calYearStyle = "plain"
          /\ navTarget \in {FirstYear, LastYear} \X (1..12)
       \/ /\ calLocale = "ru"
          /\ calYearStyle \in {"suffixed", "missing"}
          /\ navTarget = <<LastYear, 11>>
       \/ /\ calLocale = "en"
          /\ calYearStyle = "plain"
          /\ navTarget = <<LastYear, 11>>
    /\ navStart = <<calYear, calMonth>>
    /\ navIter = 0
    /\ picked = <<>>
    /\ calQueue = <<>>
    /\ grace = 0
    /\ table = EmptyTable
    /\ final_headers = <<>>
    /\ rows = <<>>
    /\ maxPages = 1
    /\ pg = 0
    /\ all_rows = <<>>
    /\ pageRows = <<>>
    /\ btnSeen = "none"
    /\ prevSig = EmptyText
    /\ curSig = EmptyText
    /\ elapsed = 0
    /\ pending = FALSE
    /\ sigChanged = FALSE
    /\ nextRet = "none"
    /\ output = <<>>

NavNext ==
    \/ NavStep("nav", "nav_returned")
    \/ GraceWait

SpecNav == NavInit /\ [][NavNext]_vars

\* The widget shows a month label of MONTHS_RU and a year label with digits.
CalReadable == calLocale = "ru" /\ calYearStyle \notin {"missing", "no_digits"}

MonthIndex(ym) == 12 * ym[1] + ym[2] - 1

MonthDistance(a, b) == IF MonthIndex(a) >= MonthIndex(b)
                       THEN MonthIndex(a) - MonthIndex(b)
                       ELSE MonthIndex(b) - MonthIndex(a)

NavEnded == pc \in {"nav_returned", "failed"}

\* C1 as stated: whatever month a readable widget displays and whatever the
\* target, the navigator ends by returning, with the target displayed.
C1_AnyDistance ==
    (CalReadable /\ NavEnded) =>
        /\ pc = "nav_returned"
        /\ <<calYear, calMonth>> = navTarget

\* C1, amended: when the target is fewer than StepCap months away from the month
\* a readable widget displays, forward or backward, every iteration moves the
\* widget one month closer, the navigator never raises, and it returns with the
\* target displayed after exactly as many clicks as the months between them.
C1_NavReachesTarget ==
    (CalReadable /\ MonthDistance(navStart, navTarget) < StepCap) =>
        /\ pc \in {"nav", "nav_returned"}
        /\ err = ""
        /\ navIter < StepCap
        /\ Len(log) = navIter
        /\ MonthDistance(<<calYear, calMonth>>, navTarget) + navIter
               = MonthDistance(navStart, navTarget)
        /\ pc = "nav_returned" => <<calYear, calMonth>> = navTarget

\* A backward navigation over the longest distance the loop allows has returned.
C1_Witness ==
    /\ pc = "nav_returned"
    /\ CalReadable
    /\ TupleLess(navTarget, navStart)
    /\ navIter = StepCap - 1
    /\ <<calYear, calMonth>> = navTarget

\* C2: called with the target a readable widget already displays, the navigator
\* clicks neither control, leaves the displayed month as it is and returns.
C2_NoClickAtTarget ==
    (CalReadable /\ navStart = navTarget) =>
        /\ log = <<>>
        /\ navIter = 0
        /\ <<calYear, calMonth>> = navStart
        /\ pc \in {"nav", "nav_returned"}

C2_Witness ==
    /\ pc = "nav_returned"
    /\ CalReadable
    /\ navStart = navTarget
    /\ log = <<>>

(***************************************************************************)
(* parse_table on its own: any small header, any row length                *)
(***************************************************************************)
MaxCols == 3
MaxSurplus == 2

\* Raw header cell texts: blank, "Data", the victim-count header, "Mesto", "extra_1"
HeaderCells == { <<>>,
                 <<"Data">>,
                 <<NBSP, "Kolichestvo", NBSP, "postradavshikh", SP>>,
                 <<"Mesto", SP>>,
                 <<"extra_", "1">> }

RECURSIVE SeqsOfLen(_, _)
SeqsOfLen(S, n) == IF n = 0 THEN {<<>>}
                   ELSE {Append(q, x) : q \in SeqsOfLen(S, n - 1), x \in S}

SeqsUpTo(S, n) == UNION {SeqsOfLen(S, k) : k \in 0..n}

\* The header row of the scenario of the specification
ExampleRow1 == << <<>>, <<"Data">>, <<"Kolichestvo", SP, "postradavshikh">>, <<"Mesto">> >>

ExampleHeaders == <<SERVICE, <<"Data">>, RANENO, POGIBLO, <<"Mesto">>>>

HeaderRows1 == SeqsUpTo(HeaderCells, MaxCols) \cup {ExampleRow1}

\* thead: the first row alone, or with a second row of 0, 1 or 2 cells
Theads == {<<r1>> : r1 \in HeaderRows1}
          \cup {<<r1, r2>> : r1 \in HeaderRows1,
                              r2 \in {<<>>, <<<<"ran.">>>>, <<<<"ran.">>, <<NBSP, "pog.">>>>}}

\* The raw text of the i-th cell of a data row
DataCell(i) == IF i % 2 = 1 THEN <<NBSP, "v">> \o Decimal(i) ELSE <<"v">> \o Decimal(i) \o <<SP>>

DataRow(n) == [i \in 1..n |-> DataCell(i)]

TableInit ==
    /\ pc = "parse"
    /\ err = ""
    /\ log = <<>>
    /\ calYear = FirstYear
    /\ calMonth = 1
    /\ calLocale = "ru"
    /\ calYearStyle = "plain"
    /\ navTarget = <<FirstYear, 1>>
    /\ navStart = <<FirstYear, 1>>
    /\ navIter = 0
    /\ picked = <<>>
    /\ calQueue = <<>>
    /\ grace = 0
    /\ \E th \in Theads :
          \/ table = [thead |-> th, tbody |-> <<>>]
          \/ \E n \in 0..(MaxCols + 1 + MaxSurplus) :
                table = [thead |-> th, tbody |-> <<DataRow(n)>>]
    /\ final_headers = <<>>
    /\ rows = <<>>
    /\ maxPages = 1
    /\ pg = 0
    /\ all_rows = <<>>
    /\ pageRows = <<>>
    /\ btnSeen = "none"
    /\ prevSig = EmptyText
    /\ curSig = EmptyText
    /\ elapsed = 0
    /\ pending = FALSE
    /\ sigChanged = FALSE
    /\ nextRet = "none"
    /\ output = <<>>

\* A call of parse_table
ParseTable ==
    /\ pc = "parse"
    /\ pc' = "parsed"
    /\ final_headers' = ReconciledHeaders(table)
    /\ rows' = parse_table(table)
    /\ UNCHANGED <<err, log, table>>
    /\ UNCHANGED <<navVars, pageVars, mainVars>>

TableNext == ParseTable

SpecTable == TableInit /\ [][TableNext]_vars

\* The texts of the first header row as read, and the places of those that
\* contain the victim-count phrase.
Row1Texts == IF Len(table.thead) >= 1 THEN TextsOf(table.thead[1]) ELSE <<>>

VictimPlaces == {i \in 1..Len(Row1Texts) : Contains(VICTIMS, Row1Texts[i])}

Row2Len == IF Len(table.thead) > 1 THEN Len(table.thead[2]) ELSE 0

\* C3 as stated: the first row contains the phrase and the second row is not
\* empty, so the header is one longer and the phrase's place holds Raneno, Pogiblo.
C3_AnySecondRow ==
    (pc = "parsed" /\ VictimPlaces # {} /\ Row2Len >= 1) =>
        /\ Len(final_headers) = Len(Row1Texts) + 1
        /\ \E i \in VictimPlaces :
              final_headers[i] = RANENO /\ final_headers[i + 1] = POGIBLO

\* C3, amended: when the second header row has at least two cells and exactly
\* one cell of the first row, not its first cell, contains the phrase, the header
\* is one longer than the first row and the phrase's place holds Raneno then
\* Pogiblo; the scenario's row reconciles to the scenario's header.
C3_VictimsExpanded ==
    (pc = "parsed" /\ Row2Len >= 2) =>
        /\ \A i \in VictimPlaces \ {1} :
              VictimPlaces \ {1} = {i} =>
                  /\ Len(final_headers) = Len(Row1Texts) + 1
                  /\ final_headers[i] = RANENO
                  /\ final_headers[i + 1] = POGIBLO
        /\ table.thead[1] = ExampleRow1 => final_headers = ExampleHeaders

C3_Witness ==
    /\ pc = "parsed"
    /\ Row2Len = 2
    /\ table.thead[1] = ExampleRow1
    /\ VictimPlaces = {3}
    /\ final_headers = ExampleHeaders

Distinct(q) == \A i, j \in 1..Len(q) : i # j => q[i] # q[j]

\* What the claim says of the record of a row of tds under a header of length H.
RowAsClaimed(rec, headers, tds) ==
    LET H == Len(headers)
        n == Len(tds)
    IN  /\ n < H => /\ Len(rec) = H
                    /\ \A j \in (n + 1)..H :
                          DictHas(rec, headers[j]) /\ DictGet(rec, headers[j]) = EmptyText
        /\ n > H => /\ Len(rec) = n
                    /\ \A k \in 1..(n - H) :
                          rec[H + k] = <<<<"extra_">> \o Decimal(k), _txt(tds[H + k])>>

\* C4 as stated: for any reconciled header, every short or long row gives the
\* record the claim describes, and there is one record per data row.
C4_AnyHeader ==
    pc = "parsed" =>
        /\ Len(rows) = Len(table.tbody)
        /\ \A r \in 1..Len(rows) : RowAsClaimed(rows[r], final_headers, table.tbody[r])

\* C4, amended: the same, for the rows whose keys (the names of the reconciled
\* header and, for a row with k surplus cells, extra_1..extra_k) are pairwise
\* distinct; a mismatch of the cell count never aborts the extraction.
C4_DistinctHeader ==
    pc = "parsed" =>
        /\ Len(rows) = Len(table.tbody)
        /\ \A r \in 1..Len(rows) :
              LET H == Len(final_headers)
                  n == Len(table.tbody[r])
                  keys == IF n > H THEN final_headers \o ExtraNames(n - H) ELSE final_headers
              IN  Distinct(keys) =>
                      /\ RowAsClaimed(rows[r], final_headers, table.tbody[r])
                      /\ DictKeys(rows[r]) = keys
                      /\ \A j \in 1..n : rows[r][j][2] = _txt(table.tbody[r][j])

C4_Witness ==
    /\ pc = "parsed"
    /\ Len(final_headers) = 3
    /\ Distinct(final_headers)
    /\ Len(rows) = 1
    /\ Len(table.tbody[1]) = 5
    /\ DictKeys(rows[1]) = final_headers \o << <<"extra_", "1">>, <<"extra_", "2">> >>

(***************************************************************************)
(* The whole run of main                                                   *)
(***************************************************************************)
MaxPagesBound == 3

\* What the widget displays when it opens: <<locale, year style, year, month>>;
\* the first is StepCap months before the start month.
RunCalendars == { <<"ru", "plain", START_DATE.year - StepCap \div 12, START_DATE.month>>,
                  <<"ru", "plain", START_DATE.year, START_DATE.month>>,
                  <<"ru", "plain", START_DATE.year, 12>>,
                  <<"en", "plain", START_DATE.year, 12>>,
                  <<"ru", "missing", START_DATE.year, 12>>,
                  <<"ru", "no_digits", START_DATE.year, 12>> }

Init ==
    /\ pc = "start"
    /\ err = ""
    /\ log = <<>>
    /\ \E shown \in RunCalendars :
          /\ calLocale = shown[1]
          /\ calYearStyle = shown[2]
          /\ calYear = shown[3]
          /\ calMonth = shown[4]
    /\ navTarget = <<START_DATE.year, START_DATE.month>>
    /\ navStart = <<calYear, calMonth>>
    /\ navIter = 0
    /\ picked = <<>>
    /\ calQueue = <<>>
    /\ grace = 0
    /\ table = EmptyTable
    /\ final_headers = <<>>
    /\ rows = <<>>
    /\ maxPages \in 1..MaxPagesBound
    /\ pg = 0
    /\ all_rows = <<>>
    /\ pageRows = <<>>
    /\ btnSeen = "none"
    /\ prevSig = EmptyText
    /\ curSig = EmptyText
    /\ elapsed = 0
    /\ pending = FALSE
    /\ sigChanged = FALSE
    /\ nextRet = "none"
    /\ output = <<>>

NavToStart == NavStep("nav_start", "pick_start")

NavToEnd == NavStep("nav_end", "pick_end")

Next ==
    \/ Goto
    \/ click_select_all_fields
    \/ OpenPeriod
    \/ GraceWait
    \/ NavToStart
    \/ PickStart
    \/ NavToEnd
    \/ PickEnd
    \/ SubmitPeriod
    \/ set_page_size
    \/ Extract
    \/ NextPageBegin
    \/ Render
    \/ Poll
    \/ PollTimeout
    \/ AfterNextPage
    \/ Save

Spec == Init /\ [][Next]_vars

Count(q, x) == Cardinality({i \in 1..Len(q) : q[i] = x})

Parses == Count(log, "call:parse_table")

NextCalls == Count(log, "call:next_page")

NextClicks == Count(log, "click:next_page")

\* The last next_page call clicked the control.
Clicked == btnSeen \in {"enabled", "query_fails"}

\* next_page has returned and main has not begun another call.
Returned == pc \in {"paginated", "save", "done"} /\ nextRet # "none"

\* C5: when the first-row fingerprint never differed from the captured one
\* after the click, next_page returns False; and once next_page has returned
\* False, no record is appended to all_rows for the rest of the run.
C5_NoChangeStops ==
    /\ []((Returned /\ Clicked /\ ~sigChanged) => nextRet = "false")
    /\ [][nextRet = "false" => (nextRet' = "false" /\ all_rows' = all_rows)]_vars

C5_Witness ==
    /\ pc = "done"
    /\ Clicked
    /\ ~sigChanged
    /\ nextRet = "false"
    /\ elapsed >= WAIT_TABLE_CHANGE_MS
    /\ Len(all_rows) = 2
    /\ output = <<all_rows>>

RECURSIVE SumSeq(_)
SumSeq(q) == IF q = <<>> THEN 0 ELSE Head(q) + SumSeq(Tail(q))

\* The place in all_rows of the k-th record of page i
PlaceOf(i, k) == SumSeq(SubSeq(pageRows, 1, i - 1)) + k

\* C6: when next_page first returns False after page n < maxPages, the loop
\* ends at page n, all_rows holds r_1 + ... + r_n records, the records of page
\* i carry _page = str(i), and the run ends without error, all_rows being
\* handed over unchanged.  Instance (two rows a page for 160): maxPages = 3,
\* two pages of two rows, control absent after page 2: four records tagged
\* "1", "1", "2", "2".
C6_EarlyStop ==
    (Returned /\ nextRet = "false") =>
        /\ pg = Len(pageRows)
        /\ pg < maxPages
        /\ Parses = pg
        /\ Len(all_rows) = SumSeq(pageRows)
        /\ \A i \in 1..Len(pageRows) : \A k \in 1..pageRows[i] :
              /\ DictHas(all_rows[PlaceOf(i, k)], PAGE_KEY)
              /\ DictGet(all_rows[PlaceOf(i, k)], PAGE_KEY) = Decimal(i)
        /\ err = ""
        /\ pc = "done" => output = <<all_rows>>
        /\ (maxPages = 3 /\ pageRows = <<2, 2>> /\ btnSeen = "absent") =>
              [i \in 1..Len(all_rows) |-> DictGet(all_rows[i], PAGE_KEY)]
                  = << <<"1">>, <<"1">>, <<"2">>, <<"2">> >>

C6_Witness ==
    /\ pc = "done"
    /\ maxPages = 3
    /\ pageRows = <<2, 2>>
    /\ btnSeen = "absent"
    /\ nextRet = "false"
    /\ Len(all_rows) = 4
    /\ output = <<all_rows>>

\* C7: at most maxPages pages are extracted; after the page maxPages the loop
\* is left without a call of next_page, so no next-page click follows it.
C7_PageCap ==
    /\ Parses <= maxPages
    /\ Len(pageRows) = Parses
    /\ pg <= maxPages
    /\ NextCalls <= maxPages - 1
    /\ NextClicks <= NextCalls
    /\ pc \in {"next_page", "polling", "paginated"} => pg < maxPages
    /\ Parses = maxPages =>
          /\ pc \in {"save", "done"}
          /\ log[Len(log)] \in {"call:parse_table", "call:save"}
          /\ NextCalls = maxPages - 1

C7_Witness ==
    /\ pc = "done"
    /\ maxPages >= 3
    /\ Parses = maxPages
    /\ NextClicks = maxPages - 1
    /\ Len(all_rows) >= 3

CallNames == {"call:goto", "call:click_select_all_fields",
              "call:set_period_range_via_calendar", "call:set_page_size",
              "call:parse_table", "call:next_page", "call:save"}

IsCall(e) == e \in CallNames

\* The calls main has made, in order
Calls == SelectSeq(log, IsCall)

ConfigCalls == <<"call:goto", "call:click_select_all_fields",
                 "call:set_period_range_via_calendar", "call:set_page_size">>

\* The places of an event in the log
Places(e) == {i \in 1..Len(log) : log[i] = e}

\* C8: main makes its calls in the order configuration (fields and period, then
\* page size), then parse_table and next_page in strict alternation beginning
\* with parse_table, then the hand-over, after which nothing follows; no record
\* exists before the page-size selection has been clicked, which comes after the
\* period was submitted.
C8_CallOrder ==
    /\ \A i \in 1..Len(Calls) :
          /\ i <= 4 => Calls[i] = ConfigCalls[i]
          /\ i = 5 => Calls[i] = "call:parse_table"
          /\ i > 5 => \/ (Calls[i] = "call:parse_table" /\ Calls[i - 1] = "call:next_page")
                       \/ (Calls[i] = "call:next_page" /\ Calls[i - 1] = "call:parse_table")
                       \/ (Calls[i] = "call:save"
                             /\ Calls[i - 1] \in {"call:parse_table", "call:next_page"})
          /\ Calls[i] = "call:save" => i = Len(Calls) /\ pc = "done"
    /\ \A i \in Places("call:parse_table") :
          \E j \in Places("click:limit_item") :
              /\ j < i
              /\ \E k \in Places("click:show") \cup Places("click:show_by_text") :
                    /\ k < j
                    /\ Cardinality({d \in Places("click:day") : d < k}) = 2
    /\ Places("click:limit_item") = {} => all_rows = <<>>
    /\ pc = "done" <=> output # <<>>
    /\ output # <<>> => output = <<all_rows>>
    /\ pc \in {"extract", "next_page", "polling", "paginated"} => Len(Calls) >= 4 /\ output = <<>>

C8_Witness ==
    /\ pc = "done"
    /\ Calls = ConfigCalls \o <<"call:parse_table", "call:next_page", "call:parse_table",
                                 "call:next_page", "call:save">>
    /\ output = <<all_rows>>

Differs(cur, prev) == cur # EmptyText /\ cur # prev

\* C9: while wait_table_changed keeps polling, the fingerprint it last polled
\* was empty or equal to the captured one; next_page returns True only with a
\* polled fingerprint that is non-empty and differs, the remote first row having
\* differed since the click; after a click it returns False only once
\* WAIT_TABLE_CHANGE_MS have elapsed; and a poll begins only before that deadline.
C9_PollOutcome ==
    /\ [](pc = "polling" => ~Differs(curSig, prevSig))
    /\ []((Returned /\ nextRet = "true") => (Clicked /\ Differs(curSig, prevSig) /\ sigChanged))
    /\ []((Returned /\ nextRet = "false" /\ Clicked) =>
             (elapsed >= WAIT_TABLE_CHANGE_MS /\ ~Differs(curSig, prevSig)))
    /\ [][(pc = "polling" /\ elapsed' # elapsed) =>
             (elapsed < WAIT_TABLE_CHANGE_MS /\ elapsed' >= elapsed + PollIntervalMs)]_vars

C9_Witness ==
    /\ pc = "paginated"
    /\ nextRet = "true"
    /\ elapsed > PollIntervalMs + ReadMsB
    /\ Differs(curSig, prevSig)
    /\ prevSig # EmptyText

\* C10: when the next-page control is absent, next_page returns False without
\* a click, and main leaves the loop as after a timed-out wait: no error, the
\* records collected so far handed over.
C10_AbsentControl ==
    btnSeen = "absent" =>
        /\ pc \in {"paginated", "save", "done"}
        /\ nextRet = "false"
        /\ err = ""
        /\ NextClicks = NextCalls - 1
        /\ log[Len(log)] # "click:next_page"
        /\ Len(all_rows) = SumSeq(pageRows)
        /\ pc = "done" => output = <<all_rows>>

C10_Witness ==
    /\ pc = "done"
    /\ btnSeen = "absent"
    /\ pg = 2
    /\ Len(all_rows) = 3
    /\ output = <<all_rows>>

AbsorbedTimeouts == {"timeout:is_checked", "timeout:show", "timeout:is_enabled"}

ClickEvents == {"click:fields_btn", "click:checkbox", "click:filters",
                "click:period_accordion", "click:period_input", "click:cal_next",
                "click:cal_prev", "click:day", "click:show", "click:show_by_text",
                "click:limit_btn", "click:limit_item", "click:next_page"}

NavFailures == {"year_unreadable", "step_cap"}

InNavigator == pc \in {"nav_start", "nav_end"}

\* C12: a year label that is missing (once the wait for it is over) or has no
\* digits, and the use of the last iteration of the step cap, fail the run at
\* once: the read that finds no year clicks nothing, the 60th click is the last UI action, the failure stops
\* the run (no step follows it), and no record exists or is handed over.
C12_NavFatal ==
    /\ [](err \in NavFailures =>
             (pc = "failed" /\ all_rows = <<>> /\ pageRows = <<>> /\ output = <<>>))
    /\ [][err \notin NavFailures]_vars
    /\ [][(InNavigator /\ calYearStyle \in {"missing", "no_digits"}) =>
             \/ (pc' = "failed" /\ err' = "year_unreadable" /\ log' = log)
             \/ (calYearStyle = "missing" /\ grace < GRACE_MS /\ grace' > grace
                    /\ UNCHANGED <<pc, err, log>>)]_vars
    /\ [][(InNavigator /\ navIter' = StepCap) =>
             (pc' = "failed" /\ err' = "step_cap")]_vars
    /\ [](err = "step_cap" =>
             (navIter = StepCap /\ log[Len(log)] \in {"click:cal_next", "click:cal_prev"}))
    /\ [](err = "year_unreadable" => log[Len(log)] = "click:period_input")

\* The step cap was used up on the way to the start month.
C12_Witness ==
    /\ pc = "failed"
    /\ err = "step_cap"
    /\ navIter = StepCap
    /\ Count(log, "click:cal_next") = StepCap
    /\ all_rows = <<>>

Row2Texts == IF Len(table.thead) > 1 THEN TextsOf(table.thead[2]) ELSE <<>>

\* The i-th cell of the first header row triggers the expansion.
Expands(i) == i > 1 /\ Contains(VICTIMS, Row1Texts[i]) /\ Row2Len >= 2

\* The place in the output of the column(s) of the i-th first-row cell
ColumnOf(i) == 1 + SumSeq([k \in 1..(i - 1) |-> IF Expands(k) THEN 2 ELSE 1])

\* C13 as stated: the first cell gives "_service", every other cell that does
\* not expand gives one column of its own text, in order; no text of the second
\* row is in the output.
C13_OwnText ==
    pc = "parsed" =>
        /\ Len(final_headers) = ColumnOf(Len(Row1Texts) + 1) - 1
        /\ Len(Row1Texts) >= 1 => final_headers[1] = SERVICE
        /\ \A i \in 2..Len(Row1Texts) :
              ~Expands(i) => final_headers[ColumnOf(i)] = Row1Texts[i]
        /\ \A j \in 1..Len(final_headers), k \in 1..Len(Row2Texts) :
              final_headers[j] # Row2Texts[k]

\* C13, amended: the same, for the other cells whose text is not blank; a blank
\* one gives one column named "_service", as the first cell does.
C13_HeaderOrder ==
    pc = "parsed" =>
        /\ Len(final_headers) = ColumnOf(Len(Row1Texts) + 1) - 1
        /\ Len(Row1Texts) >= 1 => final_headers[1] = SERVICE
        /\ \A i \in 2..Len(Row1Texts) :
              ~Expands(i) =>
                  final_headers[ColumnOf(i)] =
                      IF Row1Texts[i] = EmptyText THEN SERVICE ELSE Row1Texts[i]
        /\ \A i \in 2..Len(Row1Texts) :
              Expands(i) => /\ final_headers[ColumnOf(i)] = RANENO
                            /\ final_headers[ColumnOf(i) + 1] = POGIBLO
        /\ \A j \in 1..Len(final_headers), k \in 1..Len(Row2Texts) :
              final_headers[j] # Row2Texts[k]

\* A first cell with a text, an expanded cell, a blank cell and a plain one
C13_Witness ==
    /\ pc = "parsed"
    /\ Row2Len = 2
    /\ Len(Row1Texts) = 3
    /\ Row1Texts[1] = <<"Data">>
    /\ Expands(2)
    /\ Row1Texts[3] = EmptyText
    /\ final_headers = <<SERVICE, RANENO, POGIBLO, SERVICE>>

ShowClicks == Places("click:show") \cup Places("click:show_by_text")

DayClicks == Places("click:day")

CalClicks == Places("click:cal_next") \cup Places("click:cal_prev")

\* What C14 says of the calendar and of the submit control: the start day is
\* picked in the start month before the calendar is moved towards the end month,
\* the end day in the end month after it, and the submit control is clicked
\* once, after both, the page-size step following its network-idle wait.
PeriodInOrder ==
    /\ Len(picked) <= 2
    /\ Len(picked) = Cardinality(DayClicks)
    /\ Len(picked) >= 1 => picked[1] = START_DATE
    /\ Len(picked) = 2 => picked[2] = END_DATE
    /\ pc = "nav_start" => (picked = <<>> /\ navTarget = <<START_DATE.year, START_DATE.month>>)
    /\ pc = "nav_end" => (Len(picked) = 1 /\ navTarget = <<END_DATE.year, END_DATE.month>>)
    /\ \A k \in ShowClicks :
          /\ Len(picked) = 2
          /\ \A d \in DayClicks \cup CalClicks : d < k
          /\ k < Len(log) => log[k + 1] = "call:set_page_size"
    /\ Cardinality(ShowClicks) <= 1
    /\ pc \in {"set_page_size", "extract", "save", "done"} => Cardinality(ShowClicks) = 1

\* C14 as stated: the filter panel is opened before the select-all-columns
\* control is activated, and the rest of the order.
C14_PanelFirst ==
    /\ \A i \in Places("click:fields_btn") : \E j \in Places("click:filters") : j < i
    /\ PeriodInOrder

\* C14, amended: the select-all-columns control (and the checkbox) is activated
\* before the filter panel is opened, each once; the rest of the order as stated.
C14_ConfigOrder ==
    /\ \A j \in Places("click:filters") :
          /\ \E i \in Places("click:fields_btn") : i < j
          /\ \A c \in Places("click:checkbox") : c < j
          /\ \A d \in Places("click:period_accordion") \cup DayClicks \cup CalClicks : j < d
    /\ Count(log, "click:filters") <= 1
    /\ Count(log, "click:fields_btn") <= 1
    /\ PeriodInOrder

\* The period was submitted after both days were picked, the calendar having
\* been moved to the start month first.
C14_Witness ==
    /\ pc = "set_page_size"
    /\ picked = <<START_DATE, END_DATE>>
    /\ Count(log, "click:filters") = 1
    /\ Count(log, "click:checkbox") = 1
    /\ Cardinality(CalClicks) >= 1
    /\ Count(log, "click:show") = 1

(***************************************************************************)
(* The navigator against a widget that renders a click after a delay       *)
(***************************************************************************)
\* The number of clicks the widget may have received and not rendered yet
MaxLag == 2

\* The displayed month after the widget has rendered the click `dir`
CalAfter(dir) == IF dir = "next" THEN CalAfterNext ELSE CalAfterPrev

\* One iteration of the for loop of _navigate_calendar_to: the labels are read
\* as they are displayed, _calendar_get_month_year waiting for the dialog and
\* the first placeholder to be visible and for nothing else; the click is
\* delivered to the widget, which renders it later.
AsyncNavStep ==
    /\ pc = "nav"
    /\ navIter < StepCap
    /\ Len(calQueue) < MaxLag
    /\ GraceOver
    /\ UNCHANGED <<log, calYear, calMonth, calLocale, calYearStyle, grace>>
    /\ UNCHANGED <<navTarget, navStart, picked>>
    /\ UNCHANGED <<tableVars, pageVars, mainVars>>
    /\ LET rd == _calendar_get_month_year
           cur_month_num == MonthNum(rd.month)
           dir == IF cur_month_num = 0 THEN "prev"
                  ELSE NavDirection(<<rd.year, cur_month_num>>, navTarget)
       IN  IF ~rd.ok
           THEN /\ pc' = "failed"
                /\ err' = "year_unreadable"
                /\ UNCHANGED <<calQueue, navIter>>
           ELSE IF cur_month_num # 0 /\ NavAtTarget(<<rd.year, cur_month_num>>, navTarget)
           THEN /\ pc' = "nav_returned"
                /\ UNCHANGED <<err, calQueue, navIter>>
           ELSE /\ calQueue' = Append(calQueue, dir)
                /\ navIter' = navIter + 1
                /\ IF LoopExhausted(navIter + 1)
                   THEN pc' = "failed" /\ err' = "step_cap"
                   ELSE UNCHANGED <<pc, err>>

\* The widget renders the oldest click it has not rendered yet.
CalRender ==
    /\ calQueue # <<>>
    /\ calYear' = CalAfter(Head(calQueue))[1]
    /\ calMonth' = CalAfter(Head(calQueue))[2]
    /\ calQueue' = Tail(calQueue)
    /\ UNCHANGED <<pc, err, log, calLocale, calYearStyle, grace>>
    /\ UNCHANGED <<navTarget, navStart, navIter, picked>>
    /\ UNCHANGED <<tableVars, pageVars, mainVars>>

\* A widget rendered as the code expects, displaying a month within three
\* months of the target.
AsyncInit ==
    /\ NavInit
    /\ calLocale = "ru"
    /\ calYearStyle = "plain"
    /\ navTarget = <<LastYear, 11>>
    /\ calYear = LastYear
    /\ calMonth \in 8..12

AsyncNext ==
    \/ AsyncNavStep
    \/ CalRender

SpecAsync == AsyncInit /\ [][AsyncNext]_vars

\* The month the widget displays once it has rendered all the clicks it received
RECURSIVE Settled(_, _)
Settled(ym, queue) ==
    IF queue = <<>> THEN ym
    ELSE Settled((IF Head(queue) = "next"
                  THEN (IF ym[2] = 12 THEN <<ym[1] + 1, 1>> ELSE <<ym[1], ym[2] + 1>>)
                  ELSE (IF ym[2] = 1 THEN <<ym[1] - 1, 12>> ELSE <<ym[1], ym[2] - 1>>)),
                 Tail(queue))

CalSettled == Settled(<<calYear, calMonth>>, calQueue)

\* C15: the navigator reads the labels only when every click it made has been
\* rendered, so it never clicks on a reading older than its last click, the
\* widget is never taken past the target, and a return leaves the target displayed.
C15_NoStaleRead ==
    /\ [][navIter' # navIter => calQueue = <<>>]_vars
    /\ [][(pc = "nav" /\ pc' = "nav_returned") => calQueue = <<>>]_vars
    /\ [](TupleLess(navStart, navTarget) => ~TupleLess(navTarget, CalSettled))
    /\ [](TupleLess(navTarget, navStart) => ~TupleLess(CalSettled, navTarget))
    /\ []((pc = "nav_returned" /\ calQueue = <<>>) => <<calYear, calMonth>> = navTarget)

\* C16: while the month label is none of MONTHS_RU, every iteration clicks the
\* prev control once and nothing else, the navigator neither returns (not even
\* with the target's month displayed) nor raises before the step cap, each such
\* iteration counting against it, and the 60th ends in the step-cap failure.
C16_UnknownMonth ==
    calLocale = "en" =>
        /\ Len(log) = navIter
        /\ \A i \in 1..Len(log) : log[i] = "click:cal_prev"
        /\ MonthIndex(navStart) - MonthIndex(<<calYear, calMonth>>) = navIter
        /\ navIter <= StepCap
        /\ navIter < StepCap => (pc = "nav" /\ err = "")
        /\ navIter = StepCap => (pc = "failed" /\ err = "step_cap")

\* Called with the target's month displayed under a label it cannot look up,
\* the navigator has used up the step cap.
C16_Witness ==
    /\ calLocale = "en"
    /\ navStart = navTarget
    /\ pc = "failed"
    /\ err = "step_cap"
    /\ Count(log, "click:cal_prev") = StepCap

\* The _page tag of the i-th record of all_rows, as a number
PageTag(i) == ParseInt(DictGet(all_rows[i], PAGE_KEY))

\* C17: every step leaves the records already in all_rows where they are
\* (all_rows is a prefix of its next value, so its length never decreases);
\* every record carries a _page tag, the tags in the order of all_rows never
\* decrease, and the values they take are the numbers of the pages extracted so
\* far that had at least one row.
C17_AppendOnly ==
    /\ [][/\ Len(all_rows') >= Len(all_rows)
          /\ SubSeq(all_rows', 1, Len(all_rows)) = all_rows]_vars
    /\ [](\A i \in 1..Len(all_rows) : DictHas(all_rows[i], PAGE_KEY))
    /\ [](\A i \in 1..(Len(all_rows) - 1) : PageTag(i) <= PageTag(i + 1))
    /\ []({PageTag(i) : i \in 1..Len(all_rows)}
             = {p \in 1..Len(pageRows) : pageRows[p] >= 1})
    /\ [](Len(pageRows) <= pg /\ Len(all_rows) = SumSeq(pageRows))

\* Three pages were extracted, the first without rows.
C17_Witness ==
    /\ pc = "done"
    /\ pageRows = <<0, 2, 1>>
    /\ [i \in 1..Len(all_rows) |-> PageTag(i)] = <<2, 2, 3>>

\* C18 as stated: a next_page call whose is_enabled() query raised does not
\* fail, and it has captured the fingerprint and clicked the control.
C18_QueryNeverFatal ==
    btnSeen \in {"query_fails", "query_fails_disabled"} =>
        /\ err = ""
        /\ NextClicks = NextCalls

\* C18, amended: a next_page call whose is_enabled() query raised does not fail
\* on that account: it captures the fingerprint of the first row and clicks the
\* control, the wait beginning; it fails only when that click itself times out,
\* the control being disabled in fact.  A call whose query reported the control
\* disabled returns False having captured no fingerprint, clicked nothing and
\* polled nothing.
C18_EnabledQuery ==
    /\ [][(pc = "next_page" /\ btnSeen' = "query_fails") =>
             /\ prevSig' = first_row_signature(table)
             /\ log' = log \o <<"call:next_page", "timeout:is_enabled", "click:next_page">>
             /\ pc' = "polling"
             /\ err' = ""
             /\ elapsed' = 0]_vars
    /\ [][(pc = "next_page" /\ btnSeen' = "query_fails_disabled") =>
             /\ prevSig' = first_row_signature(table)
             /\ pc' = "failed"
             /\ err' = "timeout"]_vars
    /\ [][(pc = "next_page" /\ btnSeen' = "disabled") =>
             /\ nextRet' = "false"
             /\ pc' = "paginated"
             /\ err' = ""
             /\ log' = Append(log, "call:next_page")
             /\ UNCHANGED <<prevSig, curSig, elapsed, pending, sigChanged, table>>]_vars
    /\ [](btnSeen \in {"disabled", "absent"} => NextClicks < NextCalls)
    /\ [](btnSeen = "query_fails" => NextClicks = NextCalls)

\* A first call whose query raised clicked and returned True; the second found
\* the control disabled and returned False, the fingerprint still that of page 1.
C18_Witness ==
    /\ pc = "done"
    /\ btnSeen = "disabled"
    /\ nextRet = "false"
    /\ Count(log, "timeout:is_enabled") = 1
    /\ NextCalls = 2
    /\ NextClicks = 1
    /\ pg = 2
    /\ prevSig # first_row_signature(table)

\* C19: a call clicks the next/prev controls at most StepCap = 60 times, one
\* click for each iteration begun; it returns only on a read that showed the
\* target, clicking nothing after that read; and the iteration that makes the
\* 60th click raises without another read: a target StepCap or more months away
\* ends in the step-cap failure, the one exactly StepCap months away with the
\* target displayed.
C19_StepCap ==
    /\ [](Cardinality(CalClicks) = navIter /\ navIter <= StepCap)
    /\ [][pc' = "nav_returned" =>
             /\ pc = "nav"
             /\ _calendar_get_month_year.ok
             /\ <<_calendar_get_month_year.year, MonthNum(_calendar_get_month_year.month)>>
                    = navTarget
             /\ UNCHANGED <<log, calYear, calMonth, navIter>>]_vars
    /\ [](navIter = StepCap <=> err = "step_cap")
    /\ [](err = "step_cap" => pc = "failed")
    /\ []((CalReadable /\ NavEnded /\ MonthDistance(navStart, navTarget) >= StepCap) =>
             err = "step_cap")
    /\ []((CalReadable /\ NavEnded /\ MonthDistance(navStart, navTarget) = StepCap) =>
             <<calYear, calMonth>> = navTarget)

\* The 60th click brought the widget to the target, and the call raised.
C19_Witness ==
    /\ pc = "failed"
    /\ err = "step_cap"
    /\ CalReadable
    /\ TupleLess(navStart, navTarget)
    /\ Cardinality(CalClicks) = StepCap
    /\ <<calYear, calMonth>> = navTarget

Terminated == pc \in {"done", "failed"}

\* A step of the run is possible: one of the steps whose successors take no
\* text to compute is enabled, or the guard of one of the others holds (an
\* iteration of the calendar loop, parse_table, a poll).
CanStep ==
    \/ ENABLED (Goto \/ click_select_all_fields \/ OpenPeriod \/ GraceWait \/ PickStart
                  \/ PickEnd \/ SubmitPeriod \/ set_page_size \/ NextPageBegin
                  \/ PollTimeout \/ AfterNextPage \/ Save)
    \/ (InNavigator /\ navIter < StepCap /\ GraceOver)
    \/ pc = "extract"
    \/ (pc = "polling" /\ ~DeadlinePassed(elapsed))

\* C20: no run goes on for ever: one that keeps taking steps reaches "done",
\* all_rows handed over, or a failure, and short of that end a step is always
\* possible.  On the way the calendar loop stays within the step cap, the grace
\* loop within its deadline, the polling loop within one poll of its deadline
\* and the page loop within maxPages.
C20_Terminates ==
    /\ ([]<><<TRUE>>_vars) => <>Terminated
    /\ [](Terminated \/ CanStep)
    /\ [](pc = "done" => (err = "" /\ output = <<all_rows>>))
    /\ [](pc = "failed" => (err # "" /\ output = <<>>))
    /\ [](navIter <= StepCap)
    /\ [](grace <= GRACE_MS)
    /\ [](elapsed < WAIT_TABLE_CHANGE_MS + PollIntervalMs + ReadMsB)
    /\ [](pg <= maxPages /\ Parses <= maxPages)

\* A run that went through three pages, the last wait running to its deadline,
\* has ended.
C20_Witness ==
    /\ pc = "done"
    /\ maxPages = 3
    /\ pg = 2
    /\ elapsed >= WAIT_TABLE_CHANGE_MS
    /\ output = <<all_rows>>

====
